---- MODULE Spec2Model ----
(***************************************************************************)
(* Model of the document-reader application: the content-addressed result  *)
(* cache (storageService.ts), the generation gateway (geminiService.ts and *)
(* its image-generating variant) and the two App orchestrators             *)
(* (processContent and handleProcess) with the history panel.              *)
(*                                                                         *)
(* Strings are modelled as sequences of one-character strings.             *)
(***************************************************************************)
EXTENDS Integers, Sequences, FiniteSets, TLC

\* ------------------------------------------------------------------ bounds
\* Number of asynchronous invocations (handlers suspended at an await, or a
\* pending setTimeout callback) that may be in flight at the same time.
MaxTasks == 2
\* Number of those that may be invocations of the history panel (loadHistory,
\* handleDelete).
MaxPanelTasks == 1
\* Largest value Date.now() takes: the clock advances at every submission, so
\* this bounds the number of submissions of a session.
MaxTime == 2

\* Number of times the history panel is opened.
MaxOpens == 1

\* ------------------------------------------------------------------ values
Null == [null |-> TRUE]
\* An undefined string (fileBase64 and mimeType before a file is read).
Undefined == <<"undefined">>
NoMime == "undefined"

IDLE == "IDLE"
ANALYZING == "ANALYZING"
SYNTHESIZING == "SYNTHESIZING"
PLAYING == "PLAYING"
ERROR == "ERROR"
AppState == {IDLE, ANALYZING, SYNTHESIZING, PLAYING, ERROR}

FILE == "FILE"
TEXT == "TEXT"
InputMode == {FILE, TEXT}

\* The two App components of the repository, each with the gateway it imports.
ProcessContentBuild == "processContent"
HandleProcessBuild == "handleProcess"
Builds == {ProcessContentBuild, HandleProcessBuild}

\* Texts the user can type and files the user can choose.
Texts == {<<>>, <<" ">>, <<"a">>, <<"a", " ">>}
Files == {[name |-> "x.pdf", mimeType |-> "application/pdf", bytes |-> <<0>>],
          [name |-> "y.pdf", mimeType |-> "application/pdf", bytes |-> <<0>>]}

\* ------------------------------------------------------------------ strings
IsSpace(c) == c \in {" ", "\n", "\t"}

RECURSIVE TrimStart(_)
TrimStart(s) == IF s # <<>> /\ IsSpace(Head(s)) THEN TrimStart(Tail(s)) ELSE s

RECURSIVE TrimEnd(_)
TrimEnd(s) ==
  IF s # <<>> /\ IsSpace(s[Len(s)]) THEN TrimEnd(SubSeq(s, 1, Len(s) - 1)) ELSE s

\* Mutant: the text is taken as typed.
Trim_AsTyped(s) == s

Trim(s) == TrimEnd(TrimStart(s))

\* ------------------------------------------------------------------ fileUtils
\* Base64 alphabet restricted to the two letters the model's bytes need.
Base64Char(b) == IF b = 0 THEN "a" ELSE "b"
Base64(bytes) == [i \in 1..Len(bytes) |-> Base64Char(bytes[i])]

\* FileReader.readAsDataURL: "data:<mime>;base64,<payload>".
DataUrl(f) == <<"data:", f.mimeType, ";base64", ",">> \o Base64(f.bytes)

\* result.split(',')[1]: what lies between the first and the second comma.
RECURSIVE UpTo(_, _)
UpTo(s, sep) ==
  IF s = <<>> \/ Head(s) = sep THEN <<>> ELSE <<Head(s)>> \o UpTo(Tail(s), sep)

RECURSIVE After(_, _)
After(s, sep) ==
  IF s = <<>> THEN <<>> ELSE IF Head(s) = sep THEN Tail(s) ELSE After(Tail(s), sep)

FileOutcomes == {"load", "error"}

readFileToBase64(f, outcome) ==
  IF outcome = "error"
    THEN [rejected |-> TRUE, value |-> <<>>]
    ELSE [rejected |-> FALSE, value |-> UpTo(After(DataUrl(f), ","), ",")]

\* ------------------------------------------------------------------ hashUtils
\* SHA-256 of the UTF-8 encoding, hex encoded: a function of the string alone,
\* taken to be collision free.
computeContentHash(content) == [sha256 |-> content]

\* ------------------------------------------------------------------ storageService
\* How an IndexedDB operation can end: the request succeeds, indexedDB.open
\* reports an error, db.transaction throws, or the request reports an error.
StoreOutcomes == {"ok", "openFail", "txFail", "reqError"}

CachedItem(hash, t, result) == [id |-> hash, timestamp |-> t, data |-> result]

\* Mutant: the object store generates its keys (autoIncrement) in place of
\* keyPath 'id', so a put never meets an existing key.
Put_AutoKey(st, item) ==
  LET key == [sha256 |-> item.id.sha256 \o <<"b">>]
  IN [k \in DOMAIN st \cup {key} |-> IF k = key THEN item ELSE st[k]]

\* Mutant: objectStore.add in place of put, a record is never replaced.
Put_InsertOnly(st, item) ==
  [k \in DOMAIN st \cup {item.id} |-> IF k \in DOMAIN st THEN st[k] ELSE item]

\* Mutant: a put on an existing key replaces the record field by field and
\* leaves the solutions of the old record in place.
Put_KeepsOldSolutions(st, item) ==
  [k \in DOMAIN st \cup {item.id} |->
     IF k # item.id THEN st[k]
     ELSE IF k \in DOMAIN st
       THEN [item EXCEPT !.data.solutions = st[k].data.solutions]
     ELSE item]

\* objectStore.put with keyPath 'id': insert, or replace the record with that key.
Put(st, item) ==
  [k \in DOMAIN st \cup {item.id} |-> IF k = item.id THEN item ELSE st[k]]

\* Mutant: objectStore.clear in place of delete.
Delete_Clear(st, id) == <<>>

\* objectStore.delete.
Delete(st, id) == [k \in DOMAIN st \ {id} |-> st[k]]

\* A rejection of the promise returned from inside the try block is not caught
\* by its catch clause (the promise is returned, not awaited): only a failure of
\* `await openDB()` reaches the catch.
saveToCache(st, hash, result, t, outcome) ==
  CASE outcome = "openFail" -> [rejected |-> FALSE, store |-> st]
    [] outcome \in {"txFail", "reqError"} -> [rejected |-> TRUE, store |-> st]
    [] OTHER -> [rejected |-> FALSE, store |-> Put(st, CachedItem(hash, t, result))]

\* Mutant: the lookup never finds the record.
getFromCache_NeverFinds(st, hash, outcome) ==
  CASE outcome = "openFail" -> [rejected |-> FALSE, value |-> Null]
    [] outcome \in {"txFail", "reqError"} -> [rejected |-> TRUE, value |-> Null]
    [] OTHER -> [rejected |-> FALSE, value |-> Null]

getFromCache(st, hash, outcome) ==
  CASE outcome = "openFail" -> [rejected |-> FALSE, value |-> Null]
    [] outcome \in {"txFail", "reqError"} -> [rejected |-> TRUE, value |-> Null]
    [] OTHER -> [rejected |-> FALSE,
                 value |-> IF hash \in DOMAIN st THEN st[hash].data ELSE Null]

deleteFromCache(st, id, outcome) ==
  CASE outcome = "openFail" -> [rejected |-> FALSE, store |-> st]
    [] outcome \in {"txFail", "reqError"} -> [rejected |-> TRUE, store |-> st]
    [] OTHER -> [rejected |-> FALSE, store |-> Delete(st, id)]

\* Length a history title is cut to.
TitleLen == 60

Min(a, b) == IF a < b THEN a ELSE b

\* item.data.script.split('\n')[0].substring(0, 60)
\*   + (item.data.script.length > 60 ? '...' : '')
Title(script) ==
  LET firstLine == UpTo(script, "\n")
  IN SubSeq(firstLine, 1, Min(TitleLen, Len(firstLine)))
       \o (IF Len(script) > TitleLen THEN <<".", ".", ".">> ELSE <<>>)

\* Keys are hex digests; getAll returns the records in ascending key order.
\* The order of the digests is modelled by an order on the hashed strings.
CharCode(c) == CASE c = "a" -> 1 [] c = "b" -> 2 [] c = " " -> 3 [] OTHER -> 4

RECURSIVE KeyRank(_)
KeyRank(s) == IF s = <<>> THEN 0 ELSE CharCode(Head(s)) + 5 * KeyRank(Tail(s))

KeyLess(a, b) == KeyRank(a.sha256) < KeyRank(b.sha256)

RECURSIVE GetAll(_)
GetAll(st) ==
  IF DOMAIN st = {} THEN <<>>
  ELSE LET k == CHOOSE x \in DOMAIN st : \A y \in DOMAIN st \ {x} : KeyLess(x, y)
       IN <<st[k]>> \o GetAll(Delete(st, k))

HistoryEntry(item) ==
  [id |-> item.id, timestamp |-> item.timestamp, title |-> Title(item.data.script)]

\* Array.prototype.sort((a, b) => b.timestamp - a.timestamp): stable, so entries
\* with equal timestamps keep their getAll order.
RECURSIVE InsertNewestFirst(_, _)
InsertNewestFirst(sorted, e) ==
  IF sorted = <<>> THEN <<e>>
  ELSE IF Head(sorted).timestamp >= e.timestamp
         THEN <<Head(sorted)>> \o InsertNewestFirst(Tail(sorted), e)
         ELSE <<e>> \o sorted

\* Mutant: the list is returned in getAll order, not sorted.
SortNewestFirst_Unsorted(entries) == entries

RECURSIVE SortNewestFirst(_)
SortNewestFirst(entries) ==
  IF entries = <<>> THEN <<>>
  ELSE InsertNewestFirst(SortNewestFirst(SubSeq(entries, 1, Len(entries) - 1)),
                         entries[Len(entries)])

\* A record on which item.data.script.split throws a TypeError: its data or
\* the script of its data is missing.
Malformed(item) == item.data = Null \/ "script" \notin DOMAIN item.data

\* The TypeError is thrown inside request.onsuccess, outside every promise
\* executor and try block: the promise of getHistory then never settles.
getHistory(st, outcome) ==
  CASE outcome = "openFail" -> [rejected |-> FALSE, settles |-> TRUE, value |-> <<>>]
    [] outcome \in {"txFail", "reqError"} ->
         [rejected |-> TRUE, settles |-> TRUE, value |-> <<>>]
    [] \E k \in DOMAIN st : Malformed(st[k]) ->
         [rejected |-> FALSE, settles |-> FALSE, value |-> <<>>]
    [] OTHER ->
         LET all == GetAll(st)
         IN [rejected |-> FALSE, settles |-> TRUE,
             value |-> SortNewestFirst([i \in 1..Len(all) |-> HistoryEntry(all[i])])]

\* ------------------------------------------------------------------ geminiService
\* What the remote model can answer to a transcription request.
TranscribeOutcomes == {"ok", "SAFETY", "RECITATION", "throw", "empty", "unparsable"}
PolicyRejections == {"SAFETY", "RECITATION"}
\* The answers of the remote model to one transcription request.
Variants == {"1"}

PromptOCR == "promptOCR"
PromptSafe == "promptSafe"

\* The request parts built by generateReadingScript.
RequestParts(textInput, fileBase64, mimeType) ==
  (IF fileBase64 # Undefined /\ fileBase64 # <<>> /\ mimeType # NoMime
     THEN <<"<file>", mimeType>> \o fileBase64 ELSE <<>>)
  \o (IF textInput # <<>> THEN <<"<text>">> \o textInput ELSE <<>>)

\* The two scripts the remote model returns for a request: each is a text that
\* depends on the request, on the prompt and on the model's answer.
DualScript(prompt, parts, v) ==
  [displayScript |-> <<"display", prompt, v>> \o parts,
   readingScript |-> <<"reading", prompt, v>> \o parts]

\* Any outcome other than a parsable text gives null: a policy rejection, an
\* empty text, and (through the catch clause) a thrown error or a parse error.
callGeminiWithPrompt(prompt, parts, outcome, v) ==
  IF outcome = "ok" THEN DualScript(prompt, parts, v) ELSE Null

TranscriptionError == "Khong the xu ly tai lieu nay"

\* geminiService.ts tries promptOCR and then promptSafe; the image-generating
\* variant tries promptOCR only.
generateReadingScript(b, textInput, fileBase64, mimeType, o1, o2, v) ==
  LET parts == RequestParts(textInput, fileBase64, mimeType)
      result1 == callGeminiWithPrompt(PromptOCR, parts, o1, v)
      result2 == callGeminiWithPrompt(PromptSafe, parts, o2, v)
  IN IF result1 # Null
       THEN [threw |-> FALSE, value |-> result1, attempts |-> <<PromptOCR>>]
     ELSE IF b = HandleProcessBuild
       THEN [threw |-> TRUE, value |-> Null, attempts |-> <<PromptOCR>>]
     ELSE IF result2 # Null
       THEN [threw |-> FALSE, value |-> result2, attempts |-> <<PromptOCR, PromptSafe>>]
     ELSE [threw |-> TRUE, value |-> Null, attempts |-> <<PromptOCR, PromptSafe>>]

SpeechOutcomes == {"audio", "noAudio", "throw"}
SpeechError == "Loi khi tao giong noi"

\* The base64 PCM data returned for a script; never empty.
Speech(script) == [pcm |-> script]

\* Mutant: a response without audio data is returned as null, not thrown.
synthesizeSpeech_SilentNull(script, outcome) ==
  CASE outcome = "audio" -> [threw |-> FALSE, value |-> Speech(script)]
    [] outcome = "noAudio" -> [threw |-> FALSE, value |-> Null]
    [] OTHER -> [threw |-> TRUE, value |-> Null]

synthesizeSpeech(script, outcome) ==
  IF outcome = "audio"
    THEN [threw |-> FALSE, value |-> Speech(script)]
    ELSE [threw |-> TRUE, value |-> Null]

JsonOutcomes == {"ok", "empty", "unparsable", "throw"}

Video(n) == [title |-> n, query |-> n]
\* What the remote model can return as suggestions.
VideoLists == {<<Video(1), Video(2), Video(3), Video(4)>>}

getRelatedVideoQueries(script, outcome, list) ==
  IF outcome = "ok" THEN list ELSE <<>>

SolutionItem(q, prompt) == [question |-> q, imagePrompt |-> prompt]
\* What the remote model can return as solutions.
SolverLists == {<<SolutionItem(1, <<>>)>>}

\* Mutant: a failed request yields a placeholder item, not the empty list.
analyzeAndSolve_Placeholder(script, outcome, items) ==
  IF outcome = "ok" THEN items ELSE <<SolutionItem(0, <<>>)>>

analyzeAndSolve(script, outcome, items) ==
  IF outcome = "ok" THEN items ELSE <<>>

\* getAudioDataUrl: a WAV object URL for the PCM data.
getAudioDataUrl(base64Audio) == [wavOf |-> base64Audio.pcm]

\* ------------------------------------------------------------------ state
VARIABLES
  build,           \* which App component is running
  appState, mode, textInput, file, result, statusMessage, isCachedResult,
  showHistory,     \* App: useState
  history, isLoading,   \* HistoryList: useState
  store,           \* the object store 'analysis_cache': key -> CachedItem
  now,             \* Date.now()
  tasks,           \* the frames of the asynchronous invocations in flight
  opens,           \* how many times the history panel was opened
  shown            \* history variable: where the value of result came from

vars == <<build, appState, mode, textInput, file, result, statusMessage,
          isCachedResult, showHistory, history, isLoading, store, now, tasks,
          shown, opens>>

\* The frame of a submission: of the text and the file its closure captures, the
\* one its mode makes it use.
ProcessFrame(m, t, f) ==
  [kind |-> "process", pc |-> "start", mode |-> m, text |-> t, file |-> f,
   base64 |-> Undefined, mimeType |-> NoMime, hashInput |-> Undefined, hash |-> Null,
   probe |-> "none", cached |-> Null,
   primary |-> "none", attempts |-> <<>>, scripts |-> Null,
   pending |-> {}, audio |-> Null, videos |-> <<>>, solutions |-> <<>>,
   solveFailed |-> FALSE, suggestFailed |-> FALSE,
   final |-> Null, calls |-> <<>>]

LoadFrame(id) == [kind |-> "load", pc |-> "get", id |-> id, cached |-> Null]
HistoryFrame == [kind |-> "history", pc |-> "getHistory"]
DeleteFrame(id) == [kind |-> "delete", pc |-> "delete", id |-> id]

Remove(seq, i) == SubSeq(seq, 1, i - 1) \o SubSeq(seq, i + 1, Len(seq))

Call(op, arg) == [op |-> op, arg |-> arg]

\* The object store outlives the page: the App starts on the records of earlier
\* sessions, here none or the result of a run on the text "a" at time 0.
EarlierResult ==
  LET scripts == DualScript(PromptOCR, RequestParts(<<"a">>, Undefined, NoMime), "1")
  IN [script |-> scripts.displayScript, audioBase64 |-> Speech(scripts.readingScript),
      relatedVideos |-> <<>>, solutions |-> <<>>]

InitStores ==
  {<<>>, Put(<<>>, CachedItem(computeContentHash(<<"a">>), 0, EarlierResult))}

Init ==
  /\ build \in Builds
  /\ appState = IDLE
  /\ mode = FILE
  /\ textInput = <<>>
  /\ file = Null
  /\ result = Null
  /\ statusMessage = <<>>
  /\ isCachedResult = FALSE
  /\ showHistory = FALSE
  /\ history = <<>>
  /\ isLoading = FALSE
  /\ store \in InitStores
  /\ now = 0
  /\ tasks = <<>>
  /\ shown = "none"
  /\ opens = 0

\* ------------------------------------------------------------------ what is on screen
\* processContent's App renders the error panel, else the Player when there is a
\* result in state PLAYING, else the InputSection; handleProcess's App renders
\* the InputSection while there is no result and no error.
InputShown ==
  IF build = ProcessContentBuild
    THEN appState # ERROR /\ ~(result # Null /\ appState = PLAYING)
    ELSE result = Null /\ appState # ERROR

\* The reset button of the error panel and of the Player.
ResetShown ==
  IF build = ProcessContentBuild
    THEN appState = ERROR \/ (result # Null /\ appState = PLAYING)
    ELSE appState = ERROR \/ result # Null

\* The open history panel lies on a backdrop that covers the page; the loader of
\* processContent's App covers the page while ANALYZING or SYNTHESIZING, the
\* loader of handleProcess's App covers the InputSection while not IDLE.
PageReachable ==
  /\ ~showHistory
  /\ build = ProcessContentBuild => appState \notin {ANALYZING, SYNTHESIZING}

InputReachable == PageReachable /\ InputShown /\ appState = IDLE

\* ------------------------------------------------------------------ App
handleReset ==
  /\ PageReachable
  /\ ResetShown
  /\ appState' = IDLE
  /\ result' = Null
  /\ shown' = "none"
  /\ file' = Null
  /\ textInput' = <<>>
  /\ isCachedResult' = FALSE
  /\ UNCHANGED <<build, mode, statusMessage, showHistory, history, isLoading, store, now,
                 tasks, opens>>

\* The progress texts shown by the loader ('Dang phan tich tai lieu...', ...):
\* display only, one value stands for all of them.
Progress == <<"progress">>

\* An error value: whether it is an Error object, and its message.
TranscribeFailure == [isError |-> TRUE, message |-> TranscriptionError]
SpeechFailure == [isError |-> TRUE, message |-> SpeechError]
StoreFailure == [isError |-> TRUE, message |-> "DOMException"]
FileFailure == [isError |-> FALSE, message |-> "undefined"]

\* The catch clause of processContent and of handleProcess.
ErrorStatus(b, err) ==
  IF b = ProcessContentBuild
    THEN (IF err.isError THEN <<err.message>> ELSE <<"Da xay ra loi khong xac dinh">>)
    ELSE <<"Co loi xay ra: ", err.message>>

\* Mutant: the catch clause reports the error and leaves the state as it is.
Catch_KeepsState(i, err) ==
  /\ appState' = appState
  /\ statusMessage' = ErrorStatus(build, err)
  /\ tasks' = Remove(tasks, i)

\* The submission in frame i ends in its catch clause.
Catch(i, err) ==
  /\ appState' = ERROR
  /\ statusMessage' = ErrorStatus(build, err)
  /\ tasks' = Remove(tasks, i)

\* The text handed to generateReadingScript.
TextArgument(f) == IF f.mode = TEXT THEN f.text ELSE <<>>

\* processContent hashes the trimmed text, handleProcess the text as typed.
TextHashInput(b, text) == IF b = ProcessContentBuild THEN Trim(text) ELSE text

\* Mutant: the fingerprint is computed from the text field as it is when the
\* invocation resumes, not from the invocation's own input.
Probing_TextField(f, input) ==
  [f EXCEPT !.pc = "probe", !.hashInput = textInput, !.hash = computeContentHash(textInput)]

\* The frame after the fingerprint is computed and getFromCache is called.
Probing(f, input) ==
  [f EXCEPT !.pc = "probe", !.hashInput = input, !.hash = computeContentHash(input)]

\* The frame after the cache miss: generateReadingScript is called.
Transcribing(f, probe) ==
  [f EXCEPT !.pc = "transcribe", !.probe = probe,
            !.calls = Append(@, Call("generateReadingScript",
                                     RequestParts(TextArgument(f), f.base64, f.mimeType)))]

\* The user puts an input into the InputSection (setMode, then setText or
\* handleFile) and clicks the submit button: the handler up to its first await.
\* Nothing reads mode, textInput or file between the edits and the click.
Submit(m, t, f) ==
  /\ InputReachable
  /\ mode' = m
  /\ textInput' = IF m = TEXT THEN t ELSE textInput
  /\ file' = IF m = FILE THEN f ELSE file
  \* disabled={isProcessing || (TEXT && !text.trim()) || (FILE && !file)}, and
  \* the same two tests at the head of handleProcess
  /\ ~(m = TEXT /\ Trim(textInput') = <<>>)
  /\ ~(m = FILE /\ file' = Null)
  /\ Len(tasks) < MaxTasks
  /\ now < MaxTime
  /\ now' = now + 1
  /\ appState' = ANALYZING
  /\ LET fr == ProcessFrame(m, IF m = TEXT THEN textInput' ELSE <<>>,
                            IF m = FILE THEN file' ELSE Null)
     IN IF m = FILE /\ file' # Null
          THEN /\ tasks' = Append(tasks, [fr EXCEPT !.pc = "readFile"])
               /\ statusMessage' = Progress
          ELSE /\ tasks' = Append(tasks, Probing(fr, TextHashInput(build, textInput')))
               /\ statusMessage' = Progress
  /\ result' = IF build = HandleProcessBuild THEN Null ELSE result
  /\ shown' = IF build = HandleProcessBuild THEN "none" ELSE shown
  /\ UNCHANGED <<build, isCachedResult, showHistory, history, isLoading, store, opens>>

\* readFileToBase64 settles.
FileRead(i, outcome) ==
  /\ i \in 1..Len(tasks)
  /\ tasks[i].kind = "process" /\ tasks[i].pc = "readFile"
  /\ LET f == tasks[i]
         r == readFileToBase64(f.file, outcome)
     IN IF r.rejected
          THEN /\ Catch(i, FileFailure)
               /\ UNCHANGED <<result, isCachedResult, shown>>
          ELSE /\ tasks' = [tasks EXCEPT ![i] =
                             Probing([f EXCEPT !.base64 = r.value,
                                               !.mimeType = f.file.mimeType], r.value)]
               /\ statusMessage' = IF build = ProcessContentBuild THEN Progress ELSE statusMessage
               /\ UNCHANGED <<appState, result, isCachedResult, shown>>
  /\ UNCHANGED <<build, mode, textInput, file, showHistory, history, isLoading, store, now,
                 opens>>

\* getFromCache(contentHash) settles.
Probe(i, outcome) ==
  /\ i \in 1..Len(tasks)
  /\ tasks[i].kind = "process" /\ tasks[i].pc = "probe"
  /\ LET f == tasks[i]
         g == getFromCache(store, f.hash, outcome)
     IN IF g.rejected
          THEN /\ Catch(i, StoreFailure)
               /\ UNCHANGED <<result, isCachedResult, shown>>
        ELSE IF g.value # Null
          THEN IF build = ProcessContentBuild
                 THEN \* setTimeout(..., 800); return
                      /\ tasks' = [tasks EXCEPT ![i] =
                                    [f EXCEPT !.pc = "timer", !.probe = "hit",
                                              !.cached = g.value]]
                      /\ UNCHANGED <<appState, statusMessage, result, isCachedResult,
                                     shown>>
                 ELSE /\ result' = g.value
                      /\ shown' = "store"
                      /\ isCachedResult' = TRUE
                      /\ appState' = IDLE
                      /\ tasks' = Remove(tasks, i)
                      /\ UNCHANGED statusMessage
        ELSE /\ tasks' = [tasks EXCEPT ![i] =
                          Transcribing(f, IF outcome = "ok" THEN "miss" ELSE "unreadable")]
             /\ isCachedResult' = IF build = ProcessContentBuild
                                    THEN FALSE ELSE isCachedResult
             /\ statusMessage' = Progress
             /\ UNCHANGED <<appState, result, shown>>
  /\ UNCHANGED <<build, mode, textInput, file, showHistory, history, isLoading, store, now,
                 opens>>

\* The result a cache hit puts on screen in processContent's App: the stored
\* result with the audio replaced by a playable URL.
Restored(cached) ==
  [cached EXCEPT !.audioBase64 =
     IF cached.audioBase64 # Null THEN getAudioDataUrl(cached.audioBase64) ELSE Null]

\* The callback of the 800 ms timer of a cache hit.
HitTimer(i) ==
  /\ i \in 1..Len(tasks)
  /\ tasks[i].kind = "process" /\ tasks[i].pc = "timer"
  /\ result' = Restored(tasks[i].cached)
  /\ shown' = "store"
  /\ isCachedResult' = TRUE
  /\ appState' = PLAYING
  /\ tasks' = Remove(tasks, i)
  /\ UNCHANGED <<build, mode, textInput, file, statusMessage, showHistory, history,
                 isLoading, store, now, opens>>

\* What each gateway operation is given.
\* Mutant: the display form is read aloud.
SpeechInput_Display(scripts) == scripts.displayScript

SpeechInput(scripts) == scripts.readingScript
SolveInput(scripts) == scripts.displayScript
SuggestInput(scripts) == scripts.displayScript

PrimaryClass(o1) ==
  CASE o1 = "ok" -> "ok" [] o1 \in PolicyRejections -> "policy" [] OTHER -> "ordinary"

\* generateReadingScript settles.
Transcribe(i, o1, o2, v) ==
  /\ i \in 1..Len(tasks)
  /\ tasks[i].kind = "process" /\ tasks[i].pc = "transcribe"
  /\ LET f == tasks[i]
         g == generateReadingScript(build, TextArgument(f), f.base64, f.mimeType,
                                    o1, o2, v)
         f1 == [f EXCEPT !.primary = PrimaryClass(o1), !.attempts = g.attempts,
                         !.scripts = g.value]
     IN IF g.threw
          THEN /\ Catch(i, TranscribeFailure)
          ELSE IF build = ProcessContentBuild
            THEN \* Promise.all([synthesizeSpeech, getRelatedVideoQueries, analyzeAndSolve])
                 /\ appState' = SYNTHESIZING
                 /\ statusMessage' = Progress
                 /\ tasks' = [tasks EXCEPT ![i] =
                      [f1 EXCEPT !.pc = "parallel",
                                 !.pending = {"synthesizeSpeech", "getRelatedVideoQueries",
                                              "analyzeAndSolve"},
                                 !.calls = @ \o
                                   <<Call("synthesizeSpeech", SpeechInput(g.value)),
                                     Call("getRelatedVideoQueries", SuggestInput(g.value)),
                                     Call("analyzeAndSolve", SolveInput(g.value))>>]]
            ELSE /\ statusMessage' = Progress
                 /\ tasks' = [tasks EXCEPT ![i] =
                      [f1 EXCEPT !.pc = "solve",
                                 !.calls = Append(@, Call("analyzeAndSolve",
                                                          SolveInput(g.value)))]]
                 /\ UNCHANGED <<appState>>
  /\ UNCHANGED <<build, mode, textInput, file, result, isCachedResult, showHistory, history,
                 isLoading, store, now, shown, opens>>

\* const finalResult / newResult = { script, audioBase64, relatedVideos, solutions }
Assemble(f) ==
  [script |-> f.scripts.displayScript, audioBase64 |-> f.audio,
   relatedVideos |-> f.videos, solutions |-> f.solutions]

\* Mutant: saveToCache is called as soon as the first of the joint calls resolves.
Joined_FirstSettled(f) == [f EXCEPT !.pc = "save", !.final = Assemble(f)]

\* processContent: the frame once one of the three joint calls has resolved;
\* when the last one has, the result is assembled and saveToCache is called.
Joined(f) ==
  IF f.pending = {} THEN [f EXCEPT !.pc = "save", !.final = Assemble(f)] ELSE f

Awaits(f, op, pc) ==
  /\ f.kind = "process"
  /\ IF build = ProcessContentBuild
       THEN f.pc = "parallel" /\ op \in f.pending
       ELSE f.pc = pc

\* analyzeAndSolve settles.
Solve(i, outcome, items) ==
  /\ i \in 1..Len(tasks)
  /\ Awaits(tasks[i], "analyzeAndSolve", "solve")
  /\ LET f == tasks[i]
         f1 == [f EXCEPT !.solutions = analyzeAndSolve(SolveInput(f.scripts), outcome, items),
                         !.solveFailed = (outcome # "ok"),
                         !.pending = @ \ {"analyzeAndSolve"}]
     IN IF build = ProcessContentBuild
          THEN /\ tasks' = [tasks EXCEPT ![i] = Joined(f1)]
               /\ UNCHANGED statusMessage
          ELSE /\ tasks' = [tasks EXCEPT ![i] =
                    [f1 EXCEPT !.pc = "suggest",
                               !.calls = Append(@, Call("getRelatedVideoQueries",
                                                        SuggestInput(f.scripts)))]]
               /\ statusMessage' = Progress
  /\ UNCHANGED <<build, appState, mode, textInput, file, result, isCachedResult,
                 showHistory, history, isLoading, store, now, shown, opens>>

\* getRelatedVideoQueries settles.
Suggest(i, outcome, list) ==
  /\ i \in 1..Len(tasks)
  /\ Awaits(tasks[i], "getRelatedVideoQueries", "suggest")
  /\ LET f == tasks[i]
         f1 == [f EXCEPT !.videos = getRelatedVideoQueries(SuggestInput(f.scripts),
                                                          outcome, list),
                         !.suggestFailed = (outcome # "ok"),
                         !.pending = @ \ {"getRelatedVideoQueries"}]
     IN IF build = ProcessContentBuild
          THEN /\ tasks' = [tasks EXCEPT ![i] = Joined(f1)]
               /\ UNCHANGED statusMessage
          ELSE /\ tasks' = [tasks EXCEPT ![i] =
                    [f1 EXCEPT !.pc = "synth",
                               !.calls = Append(@, Call("synthesizeSpeech",
                                                        SpeechInput(f.scripts)))]]
               /\ statusMessage' = Progress
  /\ UNCHANGED <<build, appState, mode, textInput, file, result, isCachedResult,
                 showHistory, history, isLoading, store, now, shown, opens>>

\* synthesizeSpeech settles.
Synth(i, outcome) ==
  /\ i \in 1..Len(tasks)
  /\ Awaits(tasks[i], "synthesizeSpeech", "synth")
  /\ LET f == tasks[i]
         r == synthesizeSpeech(SpeechInput(f.scripts), outcome)
         f1 == [f EXCEPT !.audio = r.value, !.pending = @ \ {"synthesizeSpeech"}]
     IN IF r.threw
          THEN Catch(i, SpeechFailure)
          ELSE /\ tasks' = [tasks EXCEPT ![i] =
                    IF build = ProcessContentBuild
                      THEN Joined(f1)
                      ELSE [f1 EXCEPT !.pc = "save", !.final = Assemble(f1)]]
               /\ UNCHANGED <<appState, statusMessage>>
  /\ UNCHANGED <<build, mode, textInput, file, result, isCachedResult, showHistory, history,
                 isLoading, store, now, shown, opens>>

\* What a generation run puts on screen: processContent replaces the audio by a
\* playable URL, handleProcess shows the result as stored.
Shown(b, final) ==
  IF b = ProcessContentBuild
    THEN [final EXCEPT !.audioBase64 = getAudioDataUrl(final.audioBase64)]
    ELSE final

DoneState(b) == IF b = ProcessContentBuild THEN PLAYING ELSE IDLE

\* saveToCache(contentHash, finalResult) settles; it stamps the record with
\* Date.now().
Save(i, outcome) ==
  /\ i \in 1..Len(tasks)
  /\ tasks[i].kind = "process" /\ tasks[i].pc = "save"
  /\ LET f == tasks[i]
         s == saveToCache(store, f.hash, f.final, now, outcome)
     IN IF s.rejected
          THEN /\ Catch(i, StoreFailure)
               /\ UNCHANGED <<store, result, shown>>
          ELSE /\ store' = s.store
               /\ result' = Shown(build, f.final)
               /\ shown' = "gateway"
               /\ appState' = DoneState(build)
               /\ tasks' = Remove(tasks, i)
               /\ UNCHANGED statusMessage
  /\ UNCHANGED <<build, mode, textInput, file, isCachedResult, showHistory, history,
                 isLoading, now, opens>>

\* ------------------------------------------------------------------ HistoryList
PanelTasks == {i \in 1..Len(tasks) : tasks[i].kind \in {"history", "delete"}}

PanelSlotFree == Len(tasks) < MaxTasks /\ Cardinality(PanelTasks) < MaxPanelTasks

\* The header's history button; the panel's effect then calls loadHistory, which
\* sets isLoading and awaits getHistory.
OpenHistory ==
  /\ PageReachable
  /\ PanelSlotFree
  /\ opens < MaxOpens
  /\ opens' = opens + 1
  /\ showHistory' = TRUE
  /\ isLoading' = TRUE
  /\ tasks' = Append(tasks, HistoryFrame)
  /\ UNCHANGED <<build, appState, mode, textInput, file, result, statusMessage,
                 isCachedResult, history, store, now, shown>>

\* onClose: the backdrop or the close button.
CloseHistory ==
  /\ showHistory
  /\ showHistory' = FALSE
  /\ UNCHANGED <<build, appState, mode, textInput, file, result, statusMessage,
                 isCachedResult, history, isLoading, store, now, tasks, shown, opens>>

\* getHistory settles in loadHistory; a rejection is not handled there.
HistoryLoaded(i, outcome) ==
  /\ i \in 1..Len(tasks)
  /\ tasks[i].kind = "history"
  /\ LET r == getHistory(store, outcome)
     IN /\ r.settles
        /\ IF r.rejected
             THEN UNCHANGED <<history, isLoading>>
             ELSE history' = r.value /\ isLoading' = FALSE
  /\ tasks' = Remove(tasks, i)
  /\ UNCHANGED <<build, appState, mode, textInput, file, result, statusMessage,
                 isCachedResult, showHistory, store, now, shown, opens>>

ListedIds == {history[k].id : k \in 1..Len(history)}

\* The entries of the panel that can be clicked.
Listed(id) ==
  /\ showHistory
  /\ ~isLoading
  /\ id \in ListedIds

\* handleDelete: window.confirm, then deleteFromCache is awaited.
handleDelete(id, confirmed) ==
  /\ Listed(id)
  /\ IF confirmed
       THEN /\ PanelSlotFree
            /\ tasks' = Append(tasks, DeleteFrame(id))
       ELSE UNCHANGED tasks
  /\ UNCHANGED <<build, appState, mode, textInput, file, result, statusMessage,
                 isCachedResult, showHistory, history, isLoading, store, now, shown, opens>>

\* deleteFromCache settles in handleDelete, which then calls loadHistory; a
\* rejection is not handled there.
Deleted(i, outcome) ==
  /\ i \in 1..Len(tasks)
  /\ tasks[i].kind = "delete"
  /\ LET r == deleteFromCache(store, tasks[i].id, outcome)
     IN IF r.rejected
          THEN /\ tasks' = Remove(tasks, i)
               /\ UNCHANGED <<store, isLoading>>
          ELSE /\ store' = r.store
               /\ isLoading' = TRUE
               /\ tasks' = [tasks EXCEPT ![i] = HistoryFrame]
  /\ UNCHANGED <<build, appState, mode, textInput, file, result, statusMessage,
                 isCachedResult, showHistory, history, now, shown, opens>>

\* ------------------------------------------------------------------ loadFromHistory
\* onSelect(item.id): the handler up to its await of getFromCache.
loadFromHistory(id) ==
  /\ Listed(id)
  /\ Len(tasks) < MaxTasks
  /\ tasks' = Append(tasks, LoadFrame(id))
  /\ IF build = ProcessContentBuild
       THEN /\ showHistory' = FALSE
            /\ statusMessage' = Progress
            /\ appState' = ANALYZING
       ELSE UNCHANGED <<showHistory, statusMessage, appState>>
  /\ UNCHANGED <<build, mode, textInput, file, result, isCachedResult, history, isLoading,
                 store, now, shown, opens>>

\* getFromCache(id) settles in loadFromHistory.
LoadSettled(i, outcome) ==
  /\ i \in 1..Len(tasks)
  /\ tasks[i].kind = "load" /\ tasks[i].pc = "get"
  /\ LET g == getFromCache(store, tasks[i].id, outcome)
     IN IF build = ProcessContentBuild
          THEN IF g.rejected
                 THEN /\ appState' = ERROR
                      /\ statusMessage' = <<"Loi khi tai lich su">>
                      /\ tasks' = Remove(tasks, i)
                      /\ UNCHANGED <<result, isCachedResult, showHistory, shown>>
               ELSE IF g.value # Null
                 THEN \* setTimeout(..., 500)
                      /\ tasks' = [tasks EXCEPT ![i] =
                                     [@ EXCEPT !.pc = "timer", !.cached = g.value]]
                      /\ UNCHANGED <<appState, statusMessage, result, isCachedResult,
                                     showHistory, shown>>
               ELSE /\ appState' = IDLE
                    /\ tasks' = Remove(tasks, i)
                    /\ UNCHANGED <<statusMessage, result, isCachedResult, showHistory,
                                   shown>>
          ELSE IF ~g.rejected /\ g.value # Null
                 THEN /\ result' = g.value
                      /\ shown' = "store"
                      /\ isCachedResult' = TRUE
                      /\ appState' = IDLE
                      /\ showHistory' = FALSE
                      /\ tasks' = Remove(tasks, i)
                      /\ UNCHANGED statusMessage
                 ELSE /\ tasks' = Remove(tasks, i)
                      /\ UNCHANGED <<appState, statusMessage, result, isCachedResult,
                                     showHistory, shown>>
  /\ UNCHANGED <<build, mode, textInput, file, history, isLoading, store, now, opens>>

\* The callback of the 500 ms timer of loadFromHistory.
LoadTimer(i) ==
  /\ i \in 1..Len(tasks)
  /\ tasks[i].kind = "load" /\ tasks[i].pc = "timer"
  /\ result' = Restored(tasks[i].cached)
  /\ shown' = "store"
  /\ isCachedResult' = TRUE
  /\ appState' = PLAYING
  /\ tasks' = Remove(tasks, i)
  /\ UNCHANGED <<build, mode, textInput, file, statusMessage, showHistory, history,
                 isLoading, store, now, opens>>

\* ------------------------------------------------------------------ specification
Slots == 1..MaxTasks

Next ==
  \/ \E m \in InputMode, t \in Texts, f \in Files \cup {Null} : Submit(m, t, f)
  \/ handleReset
  \/ \E i \in Slots, o \in FileOutcomes : FileRead(i, o)
  \/ \E i \in Slots, o \in StoreOutcomes : Probe(i, o)
  \/ \E i \in Slots : HitTimer(i)
  \/ \E i \in Slots, o1, o2 \in TranscribeOutcomes, v \in Variants : Transcribe(i, o1, o2, v)
  \/ \E i \in Slots, o \in JsonOutcomes, items \in SolverLists : Solve(i, o, items)
  \/ \E i \in Slots, o \in JsonOutcomes, list \in VideoLists : Suggest(i, o, list)
  \/ \E i \in Slots, o \in SpeechOutcomes : Synth(i, o)
  \/ \E i \in Slots, o \in StoreOutcomes : Save(i, o)
  \/ OpenHistory
  \/ CloseHistory
  \/ \E i \in Slots, o \in StoreOutcomes : HistoryLoaded(i, o)
  \/ \E id \in ListedIds, c \in BOOLEAN : handleDelete(id, c)
  \/ \E i \in Slots, o \in StoreOutcomes : Deleted(i, o)
  \/ \E id \in ListedIds : loadFromHistory(id)
  \/ \E i \in Slots, o \in StoreOutcomes : LoadSettled(i, o)
  \/ \E i \in Slots : LoadTimer(i)

Spec == Init /\ [][Next]_vars

\* ------------------------------------------------------------------ steps of a run
\* Frame i is a submission suspended at one of the program points pcs.
Running(i, pcs) ==
  i \in 1..Len(tasks) /\ tasks[i].kind = "process" /\ tasks[i].pc \in pcs

\* The step is the return of invocation i / a resumption of invocation i that
\* suspends it again.
Returned(i) == tasks' = Remove(tasks, i)
Advanced(i) == Len(tasks') = Len(tasks) /\ tasks'[i] # tasks[i]
Stepped(i) == Returned(i) \/ Advanced(i)

\* The result is on screen.
ResultDisplayed ==
  /\ result # Null
  /\ appState # ERROR
  /\ build = ProcessContentBuild => appState = PLAYING

\* ------------------------------------------------------------------ C1
\* The probe of submission i settles as a hit: no gateway operation was or is
\* called, and the stored data are what the submission puts on screen.
ServedFromStore(i) ==
  LET stored == store[tasks[i].hash].data
  IN /\ tasks[i].calls = <<>>
     /\ IF build = ProcessContentBuild
          THEN /\ Advanced(i)
               /\ tasks'[i].pc = "timer"
               /\ tasks'[i].cached = stored
               /\ tasks'[i].calls = <<>>
          ELSE /\ Returned(i)
               /\ appState' = IDLE
               /\ isCachedResult'
               /\ result' = Shown(build, stored)

\* The 800 ms timer of a hit puts the data read by the probe on screen, in the
\* form a generation run shows them.
TimerDelivers(i) ==
  /\ Returned(i)
  /\ tasks[i].calls = <<>>
  /\ result' = Shown(build, tasks[i].cached)
  /\ isCachedResult'
  /\ appState' = PLAYING

\* The probe's read of the store failed: indexedDB.open failed and the
\* submission goes on as after a miss, or the read rejected and it ends in ERROR.
ProbeReadFailed(i) ==
  \/ Advanced(i) /\ tasks'[i].pc = "transcribe" /\ tasks'[i].probe = "unreadable"
  \/ Returned(i) /\ appState' = ERROR

\* C1 as stated: a submission whose fingerprint has a record in the store (an
\* earlier submission of byte-identical content completed and stored it, and it
\* was not deleted) is served from the store: no gateway operation is invoked
\* and the stored script, audio, videos and solutions are delivered.
C1_ServedWheneverStored ==
  [][\A i \in Slots :
       /\ Running(i, {"probe"}) /\ tasks[i].hash \in DOMAIN store /\ Stepped(i)
            => ServedFromStore(i)
       /\ Running(i, {"timer"}) /\ Stepped(i) => TimerDelivers(i)]_vars

\* C1 amended: a submission whose fingerprint has a record in the store when
\* its probe reads the store is served from the store, without any gateway
\* operation and with the stored data, unless that read fails; and a submission
\* that continues as after a miss although the read succeeded found no record.
C1_ServedFromStore ==
  [][\A i \in Slots :
       /\ Running(i, {"probe"}) /\ tasks[i].hash \in DOMAIN store /\ Stepped(i)
            => ServedFromStore(i) \/ ProbeReadFailed(i)
       /\ Running(i, {"timer"}) /\ Stepped(i) => TimerDelivers(i)]_vars

\* A first run stored its result at time 1 and the next submission, at time 2,
\* was served that record.
C1_Witness ==
  /\ now = 2 /\ opens = 0 /\ tasks = <<>>
  /\ shown = "store" /\ isCachedResult
  /\ \E k \in DOMAIN store :
       store[k].timestamp = 1 /\ result = Shown(build, store[k].data)

\* ------------------------------------------------------------------ C2
\* The program points of a run before saveToCache is called.
BeforeSave == {"readFile", "probe", "timer", "transcribe", "parallel", "solve",
               "suggest", "synth"}

\* The program points at which a run awaits transcription or speech synthesis.
FatalPoints == {"transcribe", "parallel", "synth"}

FatalMessages ==
  {ErrorStatus(build, TranscribeFailure), ErrorStatus(build, SpeechFailure)}

\* C2: a run that fails fatally (generateReadingScript or synthesizeSpeech
\* throws) ends in ERROR with the one message of the failure as status, sets no
\* result, and has not called saveToCache: a run returns from a point before
\* the save only through its catch clause or a cache hit, and no step of a run
\* before its save changes the store.
C2_FatalFailure ==
  [][\A i \in Slots :
       /\ Running(i, FatalPoints) /\ Returned(i)
            => /\ appState' = ERROR
               /\ statusMessage' \in FatalMessages
               /\ result' = result /\ shown' = shown
               /\ isCachedResult' = isCachedResult
       /\ Running(i, BeforeSave) /\ Stepped(i) => store' = store]_vars

\* A run has ended in the terminal transcription error: nothing is on screen
\* and the store holds nothing newer than the records of earlier sessions.
C2_Witness ==
  /\ appState = ERROR
  /\ statusMessage = ErrorStatus(build, TranscribeFailure)
  /\ tasks = <<>> /\ result = Null
  /\ \A k \in DOMAIN store : store[k].timestamp = 0

\* ------------------------------------------------------------------ C3
\* C3 as stated: whatever way getFromCache fails, the submission goes on to
\* transcription and does not end in ERROR when its probe settles.
C3_ReadFailureIsMiss ==
  [][\A i \in Slots :
       Running(i, {"probe"}) /\ Stepped(i)
         => ~(Returned(i) /\ appState' = ERROR)]_vars

\* ------------------------------------------------------------------ C4
\* C4 as stated: whatever way saveToCache fails, the run that called it
\* delivers its generated result and does not end in ERROR.
C4_WriteFailureDelivers ==
  [][\A i \in Slots :
       Running(i, {"save"}) /\ Stepped(i)
         => /\ Returned(i)
            /\ appState' # ERROR
            /\ result' = Shown(build, tasks[i].final)]_vars

\* ------------------------------------------------------------------ C5
\* C5 as stated: for every call of generateReadingScript in flight, if the
\* primary strategy ends in a content-policy rejection then exactly one more
\* attempt is made, with the safe prompt; the call returns that attempt's
\* scripts if it succeeds and throws if it does not.
C5_OneFallbackAttempt ==
  \A i \in Slots :
    Running(i, {"transcribe"}) =>
      \A o1 \in PolicyRejections, o2 \in TranscribeOutcomes, v \in Variants :
        LET f == tasks[i]
            g == generateReadingScript(build, TextArgument(f), f.base64, f.mimeType,
                                       o1, o2, v)
            parts == RequestParts(TextArgument(f), f.base64, f.mimeType)
        IN /\ g.attempts = <<PromptOCR, PromptSafe>>
           /\ o2 = "ok" => ~g.threw /\ g.value = DualScript(PromptSafe, parts, v)
           /\ o2 # "ok" => g.threw

\* ------------------------------------------------------------------ C6
\* The result a run assembles from its scripts alone, given which of the
\* non-fatal stages failed.
Degraded(f) ==
  [script |-> f.scripts.displayScript,
   audioBase64 |-> Speech(f.scripts.readingScript),
   relatedVideos |-> IF f.suggestFailed THEN <<>> ELSE f.videos,
   solutions |-> IF f.solveFailed THEN <<>> ELSE f.solutions]

\* A failed analyzeAndSolve or getRelatedVideoQueries leaves the empty list, and
\* the result handed to saveToCache differs from the one without the failure
\* in that list only.
C6_EmptyOnFailure ==
  \A i \in Slots :
    Running(i, {"parallel", "solve", "suggest", "synth", "save"}) =>
      /\ tasks[i].solveFailed => tasks[i].solutions = <<>>
      /\ tasks[i].suggestFailed => tasks[i].videos = <<>>
      /\ tasks[i].pc = "save" => tasks[i].final = Degraded(tasks[i])

\* The run is at a point where only non-fatal stages are awaited.
OnlyNonFatalAwaited(i) ==
  \/ Running(i, {"solve", "suggest"})
  \/ Running(i, {"parallel"}) /\ "synthesizeSpeech" \notin tasks[i].pending

\* No settling of a non-fatal stage ends the run or changes the App's state; a
\* run joined on three calls ends early only with the speech error; and the
\* save of a run delivers the assembled result and, unless the store refuses
\* the write, persists it.
C6_RunContinues ==
  \A i \in Slots :
    /\ OnlyNonFatalAwaited(i) /\ Stepped(i)
         => Advanced(i) /\ appState' = appState /\ result' = result
    /\ Running(i, {"parallel"}) /\ Returned(i)
         => statusMessage' = ErrorStatus(build, SpeechFailure)
    /\ Running(i, {"save"}) /\ Returned(i) /\ appState' # ERROR
         => /\ result' = Shown(build, tasks[i].final)
            /\ store' \in {store, Put(store, CachedItem(tasks[i].hash, now, tasks[i].final))}

\* C6: failures of analyzeAndSolve and of getRelatedVideoQueries never
\* propagate: the run goes on with the empty list in place of the failed
\* stage's output, its other fields unaffected, does not enter ERROR because of
\* them, and hands the result to saveToCache like any other.
C6_NonFatalStages == [][C6_RunContinues]_vars /\ []C6_EmptyOnFailure

\* A run whose analyzeAndSolve failed and whose suggestions succeeded has
\* completed: its result is on screen and in the store, with no solutions.
C6_Witness ==
  /\ shown = "gateway" /\ appState # ERROR /\ tasks = <<>>
  /\ result # Null /\ result.solutions = <<>> /\ result.relatedVideos # <<>>
  /\ \E k \in DOMAIN store :
       /\ store[k].timestamp >= 1
       /\ result = Shown(build, store[k].data)

\* ------------------------------------------------------------------ C7
AwaitsSynth(i) ==
  \/ Running(i, {"synth"})
  \/ Running(i, {"parallel"}) /\ "synthesizeSpeech" \in tasks[i].pending

\* The step resumes run i with the outcome of synthesizeSpeech.
SynthSettled(i) ==
  /\ Advanced(i)
  /\ IF build = ProcessContentBuild
       THEN "synthesizeSpeech" \notin tasks'[i].pending
       ELSE tasks'[i].pc = "save"

HasAudio(r) == r.audioBase64 # Null /\ r.audioBase64.pcm # <<>>

\* Every record of the store, every result handed to saveToCache and every
\* result a generation run has put on screen carries audio.
C7_AudioPresent ==
  /\ \A k \in DOMAIN store : HasAudio(store[k].data)
  /\ \A i \in Slots : Running(i, {"save"}) => HasAudio(tasks[i].final)
  /\ shown = "gateway" /\ result # Null => result.audioBase64 # Null

\* A run awaiting synthesizeSpeech either goes on with audio or ends in ERROR
\* with the speech error.
C7_SynthFatal ==
  \A i \in Slots :
    AwaitsSynth(i) =>
      /\ Returned(i)
           => appState' = ERROR /\ statusMessage' = ErrorStatus(build, SpeechFailure)
      /\ SynthSettled(i) => tasks'[i].audio # Null

\* C7: a failure of synthesizeSpeech (an exception, or a response without audio
\* data) always ends the run in ERROR, so no stored record and no generated
\* result is without audio.
C7_AudioNeverSilent == [][C7_SynthFatal]_vars /\ []C7_AudioPresent

\* A run has ended in the speech error after its transcription succeeded.
C7_Witness ==
  /\ appState = ERROR
  /\ statusMessage = ErrorStatus(build, SpeechFailure)
  /\ now >= 1 /\ result = Null
  /\ \A k \in DOMAIN store : HasAudio(store[k].data)

\* ------------------------------------------------------------------ C8
\* C8 as stated: whenever a result is on screen, the indicator is set exactly
\* when that result was read from the store.
C8_IndicatorTellsOrigin ==
  ResultDisplayed => (isCachedResult <=> shown = "store")

\* ------------------------------------------------------------------ C9
\* The display scripts the remote model can return for a text.
ScriptsOf(text) ==
  {DualScript(p, RequestParts(text, Undefined, NoMime), v).displayScript :
     p \in {PromptOCR, PromptSafe}, v \in Variants}

\* C9 as stated: the string a text submission hashes is the text it passes to
\* transcription, and a text submission is served a stored result only if that
\* result was generated from the same text.
C9_KeyIsExactText ==
  \A i \in Slots :
    Running(i, {"probe", "timer", "transcribe"}) /\ tasks[i].mode = TEXT =>
      /\ tasks[i].hashInput = TextArgument(tasks[i])
      /\ tasks[i].pc = "timer" => tasks[i].cached.script \in ScriptsOf(tasks[i].text)

\* ------------------------------------------------------------------ C10
\* For every save in flight: were its put to succeed now, a read of the same
\* id would return the result put, and reads of the other ids would return
\* what they return now.
C10_PutThenGet ==
  \A i \in Slots :
    Running(i, {"save"}) =>
      LET f == tasks[i]
          s == saveToCache(store, f.hash, f.final, now, "ok")
      IN /\ ~s.rejected
         /\ getFromCache(s.store, f.hash, "ok") = [rejected |-> FALSE, value |-> f.final]
         /\ \A k \in DOMAIN store \ {f.hash} :
              getFromCache(s.store, k, "ok") = getFromCache(store, k, "ok")

\* What a read of id returns changes only with a save or a delete of id, and a
\* save that wrote is read back.
C10_ReadsChangeByWrites ==
  /\ \A id \in DOMAIN store \cup DOMAIN store' :
       getFromCache(store', id, "ok") # getFromCache(store, id, "ok")
         => \E i \in 1..Len(tasks) :
              \/ Running(i, {"save"}) /\ tasks[i].hash = id /\ Returned(i)
              \/ tasks[i].kind = "delete" /\ tasks[i].id = id /\ Stepped(i)
  /\ \A i \in Slots :
       Running(i, {"save"}) /\ Returned(i) /\ store' # store
         => getFromCache(store', tasks[i].hash, "ok").value = tasks[i].final

\* C10: after saveToCache(id, result) has written, and until the next save or
\* delete of id, getFromCache(id) returns result.
C10_RoundTrip == [][C10_ReadsChangeByWrites]_vars /\ []C10_PutThenGet

\* A save has replaced the record of an earlier session under the same id, and
\* the read returns the new result.
C10_Witness ==
  LET id == computeContentHash(<<"a">>)
  IN /\ id \in DOMAIN store
     /\ store[id].timestamp >= 1
     /\ store[id].data # EarlierResult
     /\ result = Shown(build, getFromCache(store, id, "ok").value)

\* ------------------------------------------------------------------ C11
\* Invocation i of handleDelete resumes after its await of deleteFromCache:
\* the call has completed without rejecting.
DeleteCompleted(i) ==
  i \in 1..Len(tasks) /\ tasks[i].kind = "delete" /\ Advanced(i)

\* C11 as stated: once deleteFromCache(id) has completed, getFromCache(id)
\* returns null, whether or not a record existed, and every record with
\* another id is unchanged.
C11_DeleteThenGet ==
  [][\A i \in Slots :
       DeleteCompleted(i) =>
         /\ getFromCache(store', tasks[i].id, "ok").value = Null
         /\ \A k \in DOMAIN store \ {tasks[i].id} :
              k \in DOMAIN store' /\ store'[k] = store[k]]_vars

\* ------------------------------------------------------------------ C12
\* The listing of the store as it is.
Listing == getHistory(store, "ok").value

\* Every record is stored under its own id, and the listing has one entry per
\* record.
C12_OnePerId ==
  /\ \A k \in DOMAIN store : store[k].id = k
  /\ Len(Listing) = Cardinality(DOMAIN store)
  /\ \A a, b \in 1..Len(Listing) : Listing[a].id = Listing[b].id => a = b

\* A save that writes puts its record under the fingerprint, replacing data and
\* timestamp of a record already there, and adds a record only for a new id.
C12_SaveUpserts ==
  \A i \in Slots :
    Running(i, {"save"}) /\ Returned(i) /\ store' # store =>
      /\ DOMAIN store' = DOMAIN store \cup {tasks[i].hash}
      /\ store'[tasks[i].hash] = CachedItem(tasks[i].hash, now, tasks[i].final)
      /\ \A k \in DOMAIN store \ {tasks[i].hash} : store'[k] = store[k]
      /\ Cardinality(DOMAIN store') =
           Cardinality(DOMAIN store) + (IF tasks[i].hash \in DOMAIN store THEN 0 ELSE 1)

\* C12: saveToCache is an upsert keyed by id: the store never holds two records
\* with one id, and a save under an id already stored replaces that record's
\* data and timestamp without adding a record or a history entry.
C12_Upsert == [][C12_SaveUpserts]_vars /\ []C12_OnePerId

\* The record of an earlier session was replaced by a save under the same id:
\* still one record, one history entry, with the new timestamp and data.
C12_Witness ==
  LET id == computeContentHash(<<"a">>)
  IN /\ DOMAIN store = {id}
     /\ store[id].timestamp >= 1
     /\ store[id].data # EarlierResult
     /\ Len(Listing) = 1 /\ Listing[1].timestamp = store[id].timestamp

\* ------------------------------------------------------------------ C13
\* C13 as stated: adjacent entries of the listing have strictly descending
\* timestamps.
C13_StrictlyDescending ==
  \A j \in 1..(Len(Listing) - 1) : Listing[j].timestamp > Listing[j + 1].timestamp

\* C13 amended: adjacent entries of the listing have non-increasing timestamps
\* (records saved in the same millisecond are adjacent, in key order), so the
\* order is strictly descending wherever the timestamps differ.
C13_NewestFirst ==
  /\ \A j \in 1..(Len(Listing) - 1) : Listing[j].timestamp >= Listing[j + 1].timestamp
  /\ \A a, b \in 1..Len(Listing) :
       Listing[a].timestamp > Listing[b].timestamp => a < b

\* Two overlapping runs have saved their records in the same millisecond: the
\* listing holds both, with equal timestamps.
C13_Witness ==
  /\ Len(Listing) = 2
  /\ Listing[1].id # Listing[2].id
  /\ Listing[1].timestamp = Listing[2].timestamp
  /\ Listing[1].timestamp = now

\* ------------------------------------------------------------------ C14
\* The getHistory call of frame i settles and loadHistory shows its listing.
HistoryCompleted(i) ==
  /\ i \in 1..Len(tasks)
  /\ tasks[i].kind = "history"
  /\ Returned(i)
  /\ ~isLoading'

\* The listing h has exactly one entry per record of st, with the id and the
\* timestamp of that record.
ProjectionOf(h, st) ==
  /\ Len(h) = Cardinality(DOMAIN st)
  /\ \A j \in 1..Len(h) : h[j].id \in DOMAIN st /\ h[j].timestamp = st[h[j].id].timestamp
  /\ \A k \in DOMAIN st : \E j \in 1..Len(h) : h[j].id = k

\* C14: every listing that loadHistory shows is a projection of the store as it
\* is when getHistory settles: one entry per stored record, nothing else; so a
\* listing loaded after a completed delete lacks the deleted id and keeps every
\* other entry.
C14_ListingIsProjection ==
  [][\A i \in Slots : HistoryCompleted(i) => ProjectionOf(history', store)]_vars

\* ------------------------------------------------------------------ C15
\* How far around the cut of the title the lengths of the stored first lines go.
TitleMargin == 1

\* A line of n characters.
Line(n) == [j \in 1..n |-> "x"]

\* Scripts of earlier sessions: a first line that is empty, short, or about as
\* long as the cut; then nothing, or a line break followed by a short or a long
\* remainder.
FirstLines == {Line(n) : n \in {0, 1} \cup ((TitleLen - TitleMargin)..(TitleLen + TitleMargin))}
Remainders == {<<>>} \cup {<<"\n">> \o Line(n) : n \in {0, TitleLen}}
StoredScripts == {first \o rest : first \in FirstLines, rest \in Remainders}

\* The store the session starts with: one record of an earlier session.
InitHistoryStores ==
  {Put(<<>>, CachedItem(computeContentHash(<<"a">>), 0, [EarlierResult EXCEPT !.script = s])) :
     s \in StoredScripts}

InitHistory ==
  /\ build \in Builds
  /\ appState = IDLE
  /\ mode = FILE
  /\ textInput = <<>>
  /\ file = Null
  /\ result = Null
  /\ statusMessage = <<>>
  /\ isCachedResult = FALSE
  /\ showHistory = FALSE
  /\ history = <<>>
  /\ isLoading = FALSE
  /\ store \in InitHistoryStores
  /\ now = 0
  /\ tasks = <<>>
  /\ shown = "none"
  /\ opens = 0

\* A session in which the user only works with the history panel.
NextHistory ==
  \/ handleReset
  \/ OpenHistory
  \/ CloseHistory
  \/ \E i \in Slots, o \in StoreOutcomes : HistoryLoaded(i, o)
  \/ \E id \in ListedIds, c \in BOOLEAN : handleDelete(id, c)
  \/ \E i \in Slots, o \in StoreOutcomes : Deleted(i, o)
  \/ \E id \in ListedIds : loadFromHistory(id)
  \/ \E i \in Slots, o \in StoreOutcomes : LoadSettled(i, o)
  \/ \E i \in Slots : LoadTimer(i)

HistorySpec == InitHistory /\ [][NextHistory]_vars

\* The first line of the script, cut to TitleLen characters, with the marker
\* exactly when the first line was cut.
CutFirstLine(script) ==
  LET firstLine == UpTo(script, "\n")
  IN IF Len(firstLine) > TitleLen
       THEN SubSeq(firstLine, 1, TitleLen) \o <<".", ".", ".">>
       ELSE firstLine

\* C15: the title of every entry of the loaded listing is the first line of the
\* stored script cut to at most 60 characters, with the marker '...' if and only
\* if the first line was longer than 60 characters, whatever follows the first
\* line.
C15_MarkerIffCut ==
  \A j \in 1..Len(history) :
    history[j].id \in DOMAIN store
      => history[j].title = CutFirstLine(store[history[j].id].data.script)

\* ------------------------------------------------------------------ C16
\* 'de xuat 3 tu khoa tim kiem Youtube': the number of suggestions the prompt
\* of getRelatedVideoQueries asks for.
SuggestionCount == 3

\* C16: the relatedVideos of the displayed result and of every stored result
\* have at most 3 entries, whatever the suggestion request answers.
C16_SuggestionsBounded ==
  /\ result # Null => Len(result.relatedVideos) <= SuggestionCount
  /\ \A k \in DOMAIN store : Len(store[k].data.relatedVideos) <= SuggestionCount

\* ------------------------------------------------------------------ C17
\* The answers to the primary request that are failures but no policy rejection.
OrdinaryFailures == TranscribeOutcomes \ (PolicyRejections \cup {"ok"})

\* How often invocation f has called the gateway operation op.
CallCount(f, op) == Cardinality({n \in 1..Len(f.calls) : f.calls[n].op = op})

\* C17: for every call of generateReadingScript in flight, an ordinary failure
\* of the primary attempt (thrown request error, empty or unparsable response)
\* makes the call throw after that one attempt; and no run calls solve, suggest
\* or synthesize more than once.
C17_RetryOnlyOnPolicy ==
  \A i \in Slots :
    /\ Running(i, {"transcribe"}) =>
         \A o1 \in OrdinaryFailures, o2 \in TranscribeOutcomes, v \in Variants :
           LET f == tasks[i]
               g == generateReadingScript(build, TextArgument(f), f.base64, f.mimeType,
                                          o1, o2, v)
           IN g.attempts = <<PromptOCR>> /\ g.threw
    /\ (i \in 1..Len(tasks) /\ tasks[i].kind = "process") =>
         \A op \in {"analyzeAndSolve", "getRelatedVideoQueries", "synthesizeSpeech"} :
           CallCount(tasks[i], op) <= 1

\* ------------------------------------------------------------------ C18
\* The gateway operations that work on the transcribed scripts.
StageOps == {"analyzeAndSolve", "getRelatedVideoQueries", "synthesizeSpeech"}

ProcessFrames == {i \in 1..Len(tasks) : tasks[i].kind = "process"}

\* Every call of a stage in the log of invocation f comes after the call of
\* generateReadingScript, which has returned scripts, and works on them.
StagesFollowTranscription(f) ==
  \A n \in 1..Len(f.calls) :
    f.calls[n].op \in StageOps
      => /\ f.scripts # Null
         /\ f.pc \notin {"start", "readFile", "probe", "timer", "transcribe"}
         /\ \E m \in 1..(n - 1) : f.calls[m].op = "generateReadingScript"
         /\ f.calls[n].arg \in {f.scripts.displayScript, f.scripts.readingScript}

\* A hit of the probe: no operation of the gateway was called.
HitIssuesNothing(f) == (f.probe = "hit" \/ f.cached # Null) => f.calls = <<>>

\* Invocation f awaits saveToCache: every stage was called once and has
\* settled, and the record to store is the result assembled from the answers.
SaveFollowsAssembly(f) ==
  f.pc = "save"
    => /\ \A op \in StageOps : CallCount(f, op) = 1
       /\ f.pending = {}
       /\ f.final = Assemble(f)

\* The step calls saveToCache in invocation i: it is the settling of the last
\* stage the invocation awaited.
EntersSave(i) ==
  /\ Running(i, {"parallel", "solve", "suggest", "synth"})
  /\ Advanced(i)
  /\ tasks'[i].pc = "save"

LastStageSettles(i) ==
  IF build = ProcessContentBuild
    THEN Cardinality(tasks[i].pending) = 1 /\ tasks'[i].pending = {}
    ELSE /\ tasks[i].pc = "synth"
         /\ [n \in 1..Len(tasks[i].calls) |-> tasks[i].calls[n].op]
              = <<"generateReadingScript", "analyzeAndSolve", "getRelatedVideoQueries",
                  "synthesizeSpeech">>

\* The step puts a generated result on screen.
Delivers == shown' = "gateway" /\ (shown # "gateway" \/ result' # result)

\* The step is the return of saveToCache in invocation i, which then delivers
\* the result it stored.
DeliversAfterSave(i) ==
  /\ Running(i, {"save"})
  /\ Returned(i)
  /\ result' = Shown(build, tasks[i].final)
  /\ \E o \in StoreOutcomes :
       LET s == saveToCache(store, tasks[i].hash, tasks[i].final, now, o)
       IN ~s.rejected /\ store' = s.store

C18_Steps ==
  /\ \A i \in Slots : EntersSave(i) => LastStageSettles(i)
  /\ Delivers => \E i \in Slots : DeliversAfterSave(i)

\* C18: within a run no solve, suggest or synthesis call is issued before
\* transcription has returned scripts; saveToCache is called only when all
\* three have settled and the result is assembled; a generated result is put
\* on screen only by the return of saveToCache; a cache hit issues none of the
\* stages.
C18_StageOrdering ==
  /\ [][C18_Steps]_vars
  /\ [](\A i \in ProcessFrames :
          /\ StagesFollowTranscription(tasks[i])
          /\ HitIssuesNothing(tasks[i])
          /\ SaveFollowsAssembly(tasks[i]))

\* A run of processContent awaits saveToCache after its three joint calls, while
\* the result an earlier run generated is still held.
C18_Witness ==
  /\ build = ProcessContentBuild
  /\ shown = "gateway"
  /\ result # Null
  /\ \E i \in ProcessFrames :
       /\ tasks[i].pc = "save"
       /\ tasks[i].probe = "miss"
       /\ Len(tasks[i].calls) = 4

\* ------------------------------------------------------------------ C19
\* C19: in every run the solve call and the suggest call are issued by the same
\* step, so that whenever one of them is in flight the other has been issued
\* too and neither waits for the other to settle.
C19_SolveAndSuggestTogether ==
  \A i \in ProcessFrames :
    CallCount(tasks[i], "analyzeAndSolve") = CallCount(tasks[i], "getRelatedVideoQueries")

\* ------------------------------------------------------------------ C20
\* Submission i is in flight and handleReset has run since it was submitted:
\* the input it was submitted with is cleared (only handleReset empties
\* textInput and file, and a submission needs a non-empty input).
ResetSinceSubmitted(i) ==
  /\ i \in ProcessFrames
  /\ \/ tasks[i].mode = TEXT /\ textInput = <<>>
     \/ tasks[i].mode = FILE /\ file = Null

\* C20: once the user has abandoned a submission in flight by handleReset, no
\* later step of that submission (the settling of its store and gateway calls)
\* changes the result, the application state or the cache-hit indicator.
C20_AbandonedRunIsIgnored ==
  [][\A i \in Slots :
       (ResetSinceSubmitted(i) /\ Stepped(i))
         => /\ result' = result
            /\ appState' = appState
            /\ isCachedResult' = isCachedResult]_vars

\* ------------------------------------------------------------------ C21
\* Invocation i missed at its probe and awaits saveToCache, and meanwhile
\* another run has stored a record under the same fingerprint.
OverlappedSave(i) ==
  /\ Running(i, {"save"})
  /\ tasks[i].probe = "miss"
  /\ tasks[i].hash \in DOMAIN store

ResultFields == {"script", "audioBase64", "relatedVideos", "solutions"}

\* What a reader of the store gets for key k: nothing, or the whole data of the
\* one record with that key.
ReadsWholeRecord(k) ==
  LET got == getFromCache(store, k, "ok").value
  IN IF k \in DOMAIN store
       THEN got = store[k].data /\ DOMAIN got = ResultFields /\ store[k].id = k
       ELSE got = Null

C21_LastWriterStep ==
  \A i \in Slots :
    (OverlappedSave(i) /\ Returned(i)) =>
      LET h == tasks[i].hash
      IN /\ DOMAIN store' = DOMAIN store
         /\ \A k \in DOMAIN store \ {h} : store'[k] = store[k]
         /\ \/ store'[h] = store[h]
            \/ store'[h] = CachedItem(h, now, Assemble(tasks[i]))

\* C21: when two runs for the same fingerprint overlap, the save of the later
\* writer leaves one record under that fingerprint, which is either the record
\* the other run stored (the save failed) or the complete result of the writing
\* run, never a mixture; and a reader gets no record or one whole record.
C21_LastWriterWins ==
  /\ [][C21_LastWriterStep]_vars
  /\ [](\A t \in Texts : ReadsWholeRecord(computeContentHash(t)))

\* Two runs for the same text both missed; one has stored its result, the
\* other awaits saveToCache with a different result.
C21_Witness ==
  \E i \in Slots :
    /\ OverlappedSave(i)
    /\ store[tasks[i].hash].timestamp >= 1
    /\ store[tasks[i].hash].data # tasks[i].final
    /\ store[tasks[i].hash].data.script = tasks[i].final.script

\* ------------------------------------------------------------------ C22
\* The fingerprint a submission of text t (text mode) or file f (file mode)
\* computes, and the display scripts transcription can return for it.
FingerprintOf(m, t, f) ==
  computeContentHash(IF m = TEXT THEN TextHashInput(build, t)
                                 ELSE readFileToBase64(f, "load").value)

DisplayScriptsOf(m, t, f) ==
  LET parts == IF m = TEXT
                 THEN RequestParts(t, Undefined, NoMime)
                 ELSE RequestParts(<<>>, readFileToBase64(f, "load").value, f.mimeType)
  IN {DualScript(p, parts, v).displayScript : p \in {PromptOCR, PromptSafe}, v \in Variants}

\* Record k holds data generated for a submission whose fingerprint is k.
KeyedByOwnInput(k) ==
  \/ \E t \in Texts : /\ k = FingerprintOf(TEXT, t, Null)
                       /\ store[k].data.script \in DisplayScriptsOf(TEXT, t, Null)
  \/ \E f \in Files : /\ k = FingerprintOf(FILE, <<>>, f)
                       /\ store[k].data.script \in DisplayScriptsOf(FILE, <<>>, f)

\* Invocation fr carries the fingerprint of its own input, and what it has
\* assembled was transcribed from its own input.
CarriesOwnKey(fr) ==
  /\ fr.hash # Null => fr.hash = FingerprintOf(fr.mode, fr.text, fr.file)
  /\ fr.final # Null => fr.final.script \in DisplayScriptsOf(fr.mode, fr.text, fr.file)

\* A save writes under the fingerprint of the saving invocation only.
SavesUnderOwnKey ==
  \A i \in Slots :
    (Running(i, {"save"}) /\ Returned(i)) =>
      /\ \A k \in DOMAIN store' : k # tasks[i].hash => k \in DOMAIN store /\ store'[k] = store[k]
      /\ store' # store => store'[tasks[i].hash].data = tasks[i].final

SaveKeepsOthers(i) ==
  /\ Running(i, {"save"})
  /\ Returned(i)
  /\ DOMAIN store \subseteq DOMAIN store'
  /\ \A k \in DOMAIN store' \ {tasks[i].hash} : k \in DOMAIN store /\ store'[k] = store[k]

\* The step is the settling of the deleteFromCache that handleDelete called
\* after the user confirmed: the record with that id leaves, the others stay.
ConfirmedDelete(i) ==
  /\ DeleteCompleted(i)
  /\ DOMAIN store' = DOMAIN store \ {tasks[i].id}
  /\ \A k \in DOMAIN store' : store'[k] = store[k]

\* The step calls deleteFromCache: it is a click on an entry the panel lists,
\* and it leaves the store as it is.
DeleteRequested ==
  /\ Len(tasks') = Len(tasks) + 1
  /\ tasks'[Len(tasks')].kind = "delete"

\* The step resumes a reader of the store: a probe, the timer of a hit,
\* loadFromHistory or the listing of the history panel.
ReaderStep(i) ==
  /\ i \in 1..Len(tasks)
  /\ \/ tasks[i].kind = "process" /\ tasks[i].pc \in {"probe", "timer"}
     \/ tasks[i].kind \in {"load", "history"}
  /\ Stepped(i)

\* C23: the store changes only by the return of a saveToCache, which removes
\* nothing and leaves the records of other fingerprints as they are, and by a
\* confirmed delete, which removes the one record; a probe, a hit,
\* loadFromHistory and a listing leave the store, timestamps included, unchanged.
C23_StoreFrame ==
  [][/\ store' # store => \E i \in Slots : SaveKeepsOthers(i) \/ ConfirmedDelete(i)
     /\ DeleteRequested => Listed(tasks'[Len(tasks')].id) /\ store' = store
     /\ \A i \in Slots : ReaderStep(i) => store' = store]_vars

\* A result served from the store is on screen and a confirmed delete has
\* removed another record, which the panel still lists: the record that was
\* served is there with the timestamp of the earlier session.
C23_Witness ==
  LET id == computeContentHash(<<"a">>)
  IN /\ DOMAIN store = {id}
     /\ store[id].timestamp = 0
     /\ now >= 1
     /\ shown = "store"
     /\ result = Shown(build, store[id].data)
     /\ \E j \in 1..Len(history) : history[j].id \notin DOMAIN store

\* ------------------------------------------------------------------ C24
\* The input a submission works on is not empty: a text with a character that
\* is no white space, or a chosen file.
HasContent(m, t, f) ==
  IF m = TEXT THEN \E n \in 1..Len(t) : ~IsSpace(t[n]) ELSE f # Null

\* The step starts an invocation of the submit handler that gets past its
\* entry: it computes a fingerprint, reads the store, calls the gateway.
Accepted ==
  /\ Len(tasks') = Len(tasks) + 1
  /\ tasks'[Len(tasks')].kind = "process"

\* The step changes what the submit handler changes at its entry.
EntryEffects == appState' = ANALYZING /\ appState # ANALYZING /\ now' # now

\* C24: a submission with an empty or white-space-only text in text mode, or
\* without a file in file mode, starts nothing: every invocation that computes
\* a fingerprint, reads or writes the store or calls the gateway works on an
\* input with content, and only such a submission changes the state and the
\* result at the handler's entry.
C24_EmptyRejected ==
  /\ [][(Accepted \/ EntryEffects) => HasContent(mode', textInput', file')]_vars
  /\ [](\A i \in ProcessFrames :
          /\ HasContent(tasks[i].mode, tasks[i].text, tasks[i].file)
          /\ tasks[i].hash # Null => tasks[i].hashInput # <<>>)

\* After a reset the input is empty and the submit button is shown disabled,
\* while everything else is reachable: a click starts nothing.
C24_Witness ==
  /\ InputReachable
  /\ textInput = <<>>
  /\ file = Null
  /\ now >= 1
  /\ tasks = <<>>
  /\ \A m \in InputMode : ~HasContent(m, textInput, file)

\* ------------------------------------------------------------------ C25
\* Data of a record without its script.
ScriptlessResult ==
  [audioBase64 |-> EarlierResult.audioBase64, relatedVideos |-> <<>>, solutions |-> <<>>]

\* Stores left by an earlier session in which the record of the text "a" is
\* corrupt: its data are missing (an absent data reads as undefined, which
\* the callers test like null), or its data lack the script.
InitCorruptStores ==
  {Put(<<>>, CachedItem(computeContentHash(<<"a">>), 0, d)) : d \in {Null, ScriptlessResult}}

InitCorrupt ==
  /\ build \in Builds
  /\ appState = IDLE
  /\ mode = FILE
  /\ textInput = <<>>
  /\ file = Null
  /\ result = Null
  /\ statusMessage = <<>>
  /\ isCachedResult = FALSE
  /\ showHistory = FALSE
  /\ history = <<>>
  /\ isLoading = FALSE
  /\ store \in InitCorruptStores
  /\ now = 0
  /\ tasks = <<>>
  /\ shown = "none"
  /\ opens = 0

CorruptSpec == InitCorrupt /\ [][Next]_vars

\* The probe of invocation i settles on a corrupt record.
ProbesCorrupt(i) ==
  /\ Running(i, {"probe"})
  /\ Stepped(i)
  /\ tasks[i].hash \in DOMAIN store
  /\ Malformed(store[tasks[i].hash])

\* C25: a cache probe that finds a corrupt record goes on as after a miss, to
\* transcription, and the corrupt record is removed from the store.
C25_CorruptIsPurged ==
  [][\A i \in Slots :
       ProbesCorrupt(i) =>
         /\ Advanced(i) /\ tasks'[i].pc = "transcribe"
         /\ tasks[i].hash \notin DOMAIN store']_vars

\* ------------------------------------------------------------------ C26
\* The step is the end of the loadFromHistory in frame i.
LoadEnds(i) ==
  /\ i \in 1..Len(tasks)
  /\ tasks[i].kind = "load"
  /\ Returned(i)

\* The stored result is on screen.
StoredResultShown ==
  /\ result' # Null
  /\ shown' = "store"
  /\ isCachedResult'
  /\ appState' = DoneState(build)

\* The ways a loadFromHistory may end: the stored result is on screen, the
\* state is at IDLE with the result untouched (the read returned nothing), or
\* the state is ERROR (the read failed).
LoadEnding == StoredResultShown \/ (appState' = IDLE /\ result' = result) \/ appState' = ERROR

\* C26, for loadFromHistory: when its getFromCache has settled, with success
\* or with failure, the load ends with the stored result shown, with the state
\* back at IDLE for an absent id, or in ERROR.
C26_LoadEndsDefined == [][\A i \in Slots : LoadEnds(i) => LoadEnding]_vars

\* ------------------------------------------------------------------ C27
\* The scripts invocation f got from transcription go where they belong: the
\* reading form to synthesizeSpeech and nowhere else, the display form to
\* analyzeAndSolve and getRelatedVideoQueries and into the assembled result.
ScriptsRouted(f) ==
  /\ \A n \in 1..Len(f.calls) :
       /\ f.calls[n].op = "synthesizeSpeech"
            => f.calls[n].arg = f.scripts.readingScript /\ f.calls[n].arg # f.scripts.displayScript
       /\ f.calls[n].op \in {"analyzeAndSolve", "getRelatedVideoQueries"}
            => f.calls[n].arg = f.scripts.displayScript
  /\ f.final # Null
       => /\ f.final.script = f.scripts.displayScript
          /\ f.final.script # f.scripts.readingScript
          /\ f.audio # Null => f.audio = Speech(f.scripts.readingScript)

IsDisplayForm(script) == script # <<>> /\ Head(script) = "display"

C28_SingleRun ==
  /\ Cardinality(ProcessFrames) <= 1
  /\ ProcessFrames # {} => appState # IDLE

\* ------------------------------------------------------------------ C29
\* The script was transcribed from a request that carried a file.
FromFile(script) == \E n \in 1..Len(script) : script[n] = "<file>"

\* C29: a submission that is served from the store is served a result of its
\* own kind: a text submission a result transcribed from a text, a file
\* submission a result transcribed from a file.
C29_KindsNeverCollide ==
  [][\A i \in Slots :
       (/\ Running(i, {"probe"})
        /\ tasks[i].hash \in DOMAIN store
        /\ ServedFromStore(i))
         => (tasks[i].mode = FILE <=> FromFile(store[tasks[i].hash].data.script))]_vars

\* ------------------------------------------------------------------ C30
\* analyzeAndSolve of part_002, which asks for an illustration of a solution.
\* Number of items in an answer of the solver.
MaxItems == 2

\* `item.imagePrompt.trim().length > 10`
PromptMinLen == 10

LowerChar(c) == CASE c = "N" -> "n" [] c = "O" -> "o" [] c = "E" -> "e" [] OTHER -> c
ToLowerCase(s) == [n \in 1..Len(s) |-> LowerChar(s[n])]

\* Image prompts the solver can return: none, the word none, and prompts
\* around the length test, one of them longer than 10 only by its blanks and
\* one long enough without its blank.
ImagePrompts ==
  {<<>>, <<"N", "o", "n", "e">>, Line(PromptMinLen), Line(PromptMinLen + 1),
   Line(PromptMinLen - 1) \o <<" ", " ">>, <<" ">> \o Line(PromptMinLen + 1)}

ItemLists ==
  UNION {{[n \in 1..len |-> SolutionItem(n, ps[n])] : ps \in [1..len -> ImagePrompts]} :
           len \in 1..MaxItems}

ImageOutcomes == {"image", "noImage", "throw"}

\* illustrationImage: undefined
NoImage == [undefined |-> TRUE]

\* generateChemicalImage: the inline data of the response; undefined when the
\* prompt is empty, the response has no image part, or the request throws.
generateChemicalImage(imagePrompt, outcome) ==
  IF imagePrompt # <<>> /\ outcome = "image" THEN [imageOf |-> imagePrompt] ELSE NoImage

EnforcedPrompt(imagePrompt) == <<"accurate structure, ">> \o imagePrompt \o <<", 2D flat view">>

\* Mutant: every item with an image prompt gets a request.
NeedsImage_AnyPrompt(item) == item.imagePrompt # <<>>

\* The test before the image request of an item.
NeedsImage(item) ==
  /\ item.imagePrompt # <<>>
  /\ Len(Trim(item.imagePrompt)) > PromptMinLen
  /\ ToLowerCase(item.imagePrompt) # <<"n", "o", "n", "e">>

\* { ...item, illustrationImage: imageBase64 }
Illustrated(item, image) ==
  [question |-> item.question, imagePrompt |-> item.imagePrompt, illustrationImage |-> image]

\* One call of analyzeAndSolve: waiting for the solver, waiting for its image
\* requests (Promise.all), returned.
SolveFrame ==
  [kind |-> "analyzeAndSolve", pc |-> "solver", items |-> <<>>, issued |-> {},
   pending |-> {}, answers |-> <<>>, mapped |-> <<>>, out |-> <<>>]

InitIllustrate ==
  /\ build = HandleProcessBuild
  /\ appState = ANALYZING
  /\ mode = TEXT
  /\ textInput = <<"a">>
  /\ file = Null
  /\ result = Null
  /\ statusMessage = Progress
  /\ isCachedResult = FALSE
  /\ showHistory = FALSE
  /\ history = <<>>
  /\ isLoading = FALSE
  /\ store = <<>>
  /\ now = 1
  /\ tasks = <<SolveFrame>>
  /\ shown = "none"
  /\ opens = 0

\* The frame when no image request is pending any more: Promise.all resolves
\* and analyzeAndSolve returns the mapped items.
Settled(f) == IF f.pending = {} THEN [f EXCEPT !.pc = "returned", !.out = f.mapped] ELSE f

\* The solver's response arrives: a failure returns [], an answer starts the
\* image requests of the items that pass the test.
SolverAnswers(outcome, items) ==
  /\ tasks[1].pc = "solver"
  /\ LET f == tasks[1]
         wanted == {n \in 1..Len(items) : NeedsImage(items[n])}
     IN tasks' =
          IF outcome # "ok"
            THEN <<[f EXCEPT !.pc = "returned", !.out = <<>>]>>
            ELSE <<Settled([f EXCEPT !.pc = "images", !.items = items, !.issued = wanted,
                                     !.pending = wanted,
                                     !.answers = [n \in 1..Len(items) |-> "none"],
                                     !.mapped = items])>>
  /\ UNCHANGED <<build, appState, mode, textInput, file, result, statusMessage,
                 isCachedResult, showHistory, history, isLoading, store, now, shown, opens>>

\* The image request of item n settles.
ImageSettles(n, outcome) ==
  /\ tasks[1].pc = "images"
  /\ n \in tasks[1].pending
  /\ LET f == tasks[1]
         image == generateChemicalImage(EnforcedPrompt(f.items[n].imagePrompt), outcome)
     IN tasks' = <<Settled([f EXCEPT !.pending = @ \ {n},
                                    !.answers[n] = outcome,
                                    !.mapped[n] = Illustrated(f.items[n], image)])>>
  /\ UNCHANGED <<build, appState, mode, textInput, file, result, statusMessage,
                 isCachedResult, showHistory, history, isLoading, store, now, shown, opens>>

NextIllustrate ==
  \/ \E o \in JsonOutcomes, items \in ItemLists : SolverAnswers(o, items)
  \/ \E n \in 1..MaxItems, o \in ImageOutcomes : ImageSettles(n, o)

IllustrateSpec == InitIllustrate /\ [][NextIllustrate]_vars

\* Item n of the returned list carries an illustration.
HasIllustration(item) ==
  "illustrationImage" \in DOMAIN item /\ item.illustrationImage # NoImage

\* The characters of s that are no blanks at its ends number more than 10,
\* and s is not the word none.
LongEnough(s) ==
  /\ \E a, b \in 1..Len(s) : b - a + 1 > PromptMinLen /\ ~IsSpace(s[a]) /\ ~IsSpace(s[b])
  /\ s \notin {<<"n", "o", "n", "e">>, <<"N", "o", "n", "e">>}

\* C30: the image-generating analyzeAndSolve returns the solver's items in the
\* solver's order whichever image requests are issued, succeed or fail; a
\* request is issued only for an item whose imagePrompt has trimmed length
\* above 10 and is not 'none'; an item carries an illustration only if its own
\* request returned image data, and a failed request leaves it in place
\* without one.
C30_IllustrationsKeepItems ==
  LET f == tasks[1]
  IN /\ \A n \in f.issued : LongEnough(f.items[n].imagePrompt)
     /\ (f.pc = "returned" /\ f.items # <<>>) =>
          /\ Len(f.out) = Len(f.items)
          /\ \A n \in 1..Len(f.items) :
               /\ f.out[n].question = f.items[n].question
               /\ f.out[n].imagePrompt = f.items[n].imagePrompt
               /\ HasIllustration(f.out[n])
                    => /\ n \in f.issued
                       /\ f.answers[n] = "image"
                       /\ f.out[n].illustrationImage =
                            [imageOf |-> EnforcedPrompt(f.items[n].imagePrompt)]
               /\ (n \in f.issued /\ f.answers[n] # "image") => ~HasIllustration(f.out[n])
               /\ n \notin f.issued => f.out[n] = f.items[n]

\* Two items with image requests: the first got its image, the request of the
\* second failed, and both are returned.
C30_Witness ==
  LET f == tasks[1]
  IN /\ f.kind = "analyzeAndSolve"
     /\ f.pc = "returned"
     /\ Len(f.out) = 2
     /\ f.issued = {1, 2}
     /\ HasIllustration(f.out[1])
     /\ f.answers[2] = "throw"
     /\ ~HasIllustration(f.out[2])

====
